---- MODULE Spec2Model ----
(***************************************************************************)
(* learn_joint_bpe_and_vocab (subword_nmt/learn_joint_bpe_and_vocab.py):   *)
(* the joint BPE learning pipeline as a state machine.                     *)
(*                                                                         *)
(* Strings are sequences of character codes.  The codes keep the relative  *)
(* order of the code points they stand for:                                *)
(*   ' ' = 0,  '0'..'9' = 1..10,  '@' = 11,  'a' = 12,  'b' = 13.         *)
(* A file is a sequence of lines, a line is a string without its newline.  *)
(* A Python dict / Counter is a sequence of <<key, value>> pairs in        *)
(* insertion order; a Python set is a TLA+ set whose iteration order is    *)
(* chosen nondeterministically (string hashing is randomised per process). *)
(***************************************************************************)
EXTENDS Integers, Sequences, FiniteSets, TLC

\* ------------------------------------------------------------------ bounds
\* Total number of lines over all input corpora.
MaxLines == 2
\* Number of lines of the special vocabulary file.
MaxSpecial == 2

\* ------------------------------------------------------------- characters
Chr == [sp |-> 0, zero |-> 1, at |-> 11, a |-> 12, b |-> 13]

IsDigit(c) == c >= Chr.zero /\ c <= Chr.zero + 9

\* ------------------------------------------------------------ input domains
\* Lines an input corpus may hold: "ab 1", "aa 2", "ba 0", "a", "ab a".
\* Read as a dictionary the first three are word/count pairs, "a" has one
\* field and "ab a" has a count that is no integer; read as raw text every
\* field is a token.
CorpusLines ==
    { <<12, 13, 0, 2>>, <<12, 12, 0, 3>>, <<13, 12, 0, 1>>, <<12>>, <<12, 13, 0, 12>> }

\* Lines the special vocabulary file may hold: "ab".
SpecialLines == { <<12, 13>> }

\* Separators: "" and "@@" (the default).
Separators == { <<>>, <<11, 11>> }

\* Codebooks the merge learner may emit: no merge, or the one merge a b -> ab.
Codebooks == { <<>>, << << <<12>>, <<13>> >> >> }

\* Words the merge applier may report as not segmentable: none, or "ab".
UnsegChoices == { {}, { <<12, 13>> } }

SeqsUpTo(S, n) == UNION { [1..m -> S] : m \in 0..n }

\* ---------------------------------------------------------------- strings
RECURSIVE LexLess(_, _)
\* Python's < on str: code point by code point, a proper prefix is smaller.
LexLess(s, t) ==
    IF t = <<>> THEN FALSE
    ELSE IF s = <<>> THEN TRUE
    ELSE IF s[1] # t[1] THEN s[1] < t[1]
    ELSE LexLess(Tail(s), Tail(t))

RECURSIVE LStrip(_)
LStrip(s) == IF s # <<>> /\ s[1] = Chr.sp THEN LStrip(Tail(s)) ELSE s

RECURSIVE RStrip(_)
RStrip(s) ==
    IF s # <<>> /\ s[Len(s)] = Chr.sp THEN RStrip(SubSeq(s, 1, Len(s) - 1)) ELSE s

\* str.strip('\r\n ') / str.strip(): lines carry no line terminator here, so
\* only the spaces at both ends go.
Strip(s) == LStrip(RStrip(s))

RECURSIVE SplitSp(_)
\* str.split(' '): the fields between single spaces (empty fields included).
SplitSp(s) ==
    IF \A i \in 1..Len(s) : s[i] # Chr.sp THEN <<s>>
    ELSE LET p == CHOOSE i \in 1..Len(s) :
                      s[i] = Chr.sp /\ \A j \in 1..(i - 1) : s[j] # Chr.sp
         IN  <<SubSeq(s, 1, p - 1)>> \o SplitSp(SubSeq(s, p + 1, Len(s)))

RECURSIVE JoinSp(_)
\* ' '.join(tokens)
JoinSp(toks) ==
    IF toks = <<>> THEN <<>>
    ELSE IF Len(toks) = 1 THEN toks[1]
    ELSE toks[1] \o <<Chr.sp>> \o JoinSp(Tail(toks))

\* int(s) succeeds: a non-empty run of decimal digits.
IsInt(s) == s # <<>> /\ \A i \in 1..Len(s) : IsDigit(s[i])

RECURSIVE ParseInt(_)
\* int(s) for a run of decimal digits.
ParseInt(s) ==
    IF s = <<>> THEN 0
    ELSE 10 * ParseInt(SubSeq(s, 1, Len(s) - 1)) + (s[Len(s)] - Chr.zero)

RECURSIVE IntToStr(_)
\* '{0}'.format(n) for n >= 0.
IntToStr(n) ==
    IF n < 10 THEN <<Chr.zero + n>>
    ELSE IntToStr(n \div 10) \o <<Chr.zero + (n % 10)>>

\* '{0} {1}'.format(k, v)
FormatPair(k, v) == k \o <<Chr.sp>> \o IntToStr(v)

\* ---------------------------------------------------------- dict / Counter
Keys(d) == { d[i][1] : i \in 1..Len(d) }

Values(d) == { d[i][2] : i \in 1..Len(d) }

\* Counter.__getitem__: a missing key counts 0.
Get(d, k) ==
    IF k \in Keys(d) THEN d[CHOOSE i \in 1..Len(d) : d[i][1] = k][2] ELSE 0

\* d[k] = v: an existing key keeps its place, a new key goes last.
SetItem(d, k, v) ==
    IF k \in Keys(d)
    THEN [i \in 1..Len(d) |-> IF d[i][1] = k THEN <<k, v>> ELSE d[i]]
    ELSE Append(d, <<k, v>>)

\* d[k] += n
AddItem(d, k, n) == SetItem(d, k, Get(d, k) + n)

RECURSIVE AddEach(_, _, _)
\* for s in segs: d[s] += n
AddEach(d, segs, n) ==
    IF segs = <<>> THEN d ELSE AddEach(AddItem(d, Head(segs), n), Tail(segs), n)

RECURSIVE SetEach(_, _, _)
\* for k in keys: d[k] = n
SetEach(d, keys, n) ==
    IF keys = <<>> THEN d ELSE SetEach(SetItem(d, Head(keys), n), Tail(keys), n)

RECURSIVE AddAll(_, _)
AddAll(d, other) ==
    IF other = <<>> THEN d
    ELSE AddAll(AddItem(d, Head(other)[1], Head(other)[2]), Tail(other))

KeepPositive(d) == SelectSeq(d, LAMBDA e : e[2] > 0)

\* Counter.__iadd__: add the other counter's counts, keep positive counts only.
CounterIAdd(d, other) == KeepPositive(AddAll(d, other))

RECURSIVE SumSeq(_)
SumSeq(s) == IF s = <<>> THEN 0 ELSE s[1] + SumSeq(Tail(s))

\* max(d.values()), for a non-empty d
MaxValue(d) == CHOOSE m \in Values(d) : \A v \in Values(d) : v <= m

RECURSIVE Orders(_)
\* All iteration orders of a set.
Orders(S) ==
    IF S = {} THEN { <<>> }
    ELSE UNION { { <<x>> \o o : o \in Orders(S \ {x}) } : x \in S }

\* ------------------------------------------------ learn_bpe.get_vocabulary
RECURSIVE CountTokens(_, _)
\* raw text: every non-empty field of the line counts once
CountTokens(vocab, fields) ==
    IF fields = <<>> THEN vocab
    ELSE CountTokens(IF Head(fields) # <<>> THEN AddItem(vocab, Head(fields), 1) ELSE vocab,
                     Tail(fields))

RECURSIVE GetVocabularyFrom(_, _, _, _)
GetVocabularyFrom(lines, i, vocab, is_dict) ==
    IF i > Len(lines) THEN [ok |-> TRUE, vocab |-> vocab]
    ELSE LET fields == SplitSp(Strip(lines[i])) IN
         IF ~is_dict
         THEN GetVocabularyFrom(lines, i + 1, CountTokens(vocab, fields), is_dict)
         ELSE IF Len(fields) = 2 /\ IsInt(fields[2])
         THEN GetVocabularyFrom(lines, i + 1,
                                AddItem(vocab, fields[1], ParseInt(fields[2])), is_dict)
         ELSE [ok |-> FALSE, index |-> i - 1, line |-> lines[i]]

\* The word counts of a corpus: [ok |-> TRUE, vocab] or, for a dictionary
\* line that is no word/integer pair, [ok |-> FALSE, index, line].
GetVocabulary(lines, is_dict) == GetVocabularyFrom(lines, 1, <<>>, is_dict)

\* --------------------------------------------- learn_bpe.extract_uniq_chars
\* <<non-terminal characters, terminal characters>> of the words of a mapping,
\* each a one-character string.
ExtractUniqChars(full, is_postpend) ==
    << UNION { { <<w[i]>> : i \in 1..(Len(w) - 1) } : w \in Keys(full) },
       { <<w[Len(w)]>> : w \in { v \in Keys(full) : v # <<>> } } >>

\* ------------------------------------------------------------ apply_bpe.BPE
RECURSIVE MergePair(_, _)
\* every occurrence of the pair, left to right, becomes one symbol
MergePair(syms, pair) ==
    IF Len(syms) < 2 THEN syms
    ELSE IF syms[1] = pair[1] /\ syms[2] = pair[2]
    THEN <<pair[1] \o pair[2]>> \o MergePair(SubSeq(syms, 3, Len(syms)), pair)
    ELSE <<syms[1]>> \o MergePair(Tail(syms), pair)

HasPair(syms, pair) ==
    \E i \in 1..(Len(syms) - 1) : syms[i] = pair[1] /\ syms[i + 1] = pair[2]

RECURSIVE Encode(_, _)
\* the codebook as a strict priority list: the earliest applicable merge first
Encode(syms, codes) ==
    LET cand == { i \in 1..Len(codes) : HasPair(syms, codes[i]) } IN
    IF cand = {} THEN syms
    ELSE Encode(MergePair(syms, codes[CHOOSE i \in cand : \A j \in cand : i <= j]), codes)

\* segment(word): the subwords of one word, the separator on every piece but
\* the last (prepend, the default) or on every piece but the first (postpend).
Segment(b, word) ==
    LET pieces == Encode([i \in 1..Len(word) |-> <<word[i]>>], b.codes) IN
    [i \in 1..Len(pieces) |->
        IF b.postpend
        THEN (IF i > 1 THEN b.separator \o pieces[i] ELSE pieces[i])
        ELSE (IF i < Len(pieces) THEN pieces[i] \o b.separator ELSE pieces[i])]

\* segment_tokens raises on a word the applier cannot segment
CanSegment(b, tokens) == \A i \in 1..Len(tokens) : tokens[i] \notin b.unseg

RECURSIVE SegmentTokens(_, _)
SegmentTokens(b, tokens) ==
    IF tokens = <<>> THEN <<>>
    ELSE (IF Head(tokens) = <<>> THEN <<>> ELSE Segment(b, Head(tokens)))
         \o SegmentTokens(b, Tail(tokens))

\* process_line: segment every token of the line, re-join with spaces
ProcessLine(b, ln) == JoinSp(SegmentTokens(b, SplitSp(Strip(ln))))

\* ------------------------------------------- learn_joint_bpe_and_vocab.py
\* yield_dict_lines: one 'key value' line per item, in the dict's order
YieldDictLines(d) == [i \in 1..Len(d) |-> FormatPair(d[i][1], d[i][2])]

\* [line.strip('\r\n ') for line in special vocab file]
LoadSpecial(lines) == [i \in 1..Len(lines) |-> Strip(lines[i])]

\* (mutation) the special words are assigned the count 1 instead of adding 1
FoldSpecial_Assign(full, special) == SetEach(full, special, 1)

\* for word in args.special_vocab: full_vocab[word] += 1
FoldSpecial(full, special) == AddEach(full, special, 1)

\* (mutation) the report counts lines from 1
LineFailure_OneBased(i, ln) == [kind |-> "line", index |-> i + 1, line |-> ln]

\* the report of a failed line: 'Failed reading vocabulary file at line {0}: {1}'
LineFailure(i, ln) == [kind |-> "line", index |-> i, line |-> ln]

\* 'Failed reading special vocabulary file at line {0}: {1}'
SpecialFailure(i, ln) == [kind |-> "special", index |-> i, line |-> ln]

\* (mutation) every segment counts once, whatever the count of its word
DictAdd_Once(v, segments, count) == AddEach(v, segments, 1)

\* for seg in segments: vocab[seg] += int(count)
DictAdd(v, segments, count) == AddEach(v, segments, ParseInt(count))

RECURSIVE DictLoop(_, _, _, _)
\* The dict-input loop over one corpus, from its i-th line on:
\*   "ok" with the vocabulary, "exit" (sys.exit(1) after the report) at a line
\*   that does not unpack into two fields or whose word cannot be segmented,
\*   "raise" where int(count) raises outside the try.
DictLoop(b, lines, i, v) ==
    IF i > Len(lines) THEN [kind |-> "ok", vocab |-> v]
    ELSE LET fields == SplitSp(Strip(lines[i])) IN
         IF Len(fields) # 2 \/ ~CanSegment(b, <<fields[1]>>)
         THEN [kind |-> "exit", index |-> i - 1, line |-> lines[i]]
         ELSE LET segments == SegmentTokens(b, <<fields[1]>>) IN
              IF segments # <<>> /\ ~IsInt(fields[2])
              THEN [kind |-> "raise", index |-> i - 1, line |-> lines[i]]
              ELSE DictLoop(b, lines, i + 1, DictAdd(v, segments, fields[2]))

\* tmpout.write(bpe.process_line(line).strip())
ScratchLine(b, ln) == Strip(ProcessLine(b, ln))

\* the raw-text loop can finish: process_line raises on no line
CanProcess(b, lines) ==
    \A i \in 1..Len(lines) : CanSegment(b, SplitSp(Strip(lines[i])))

\* (mutation) the vocabulary as the set of tokens, each counted once
ReExtract_Distinct(lines) ==
    LET v == GetVocabulary(lines, FALSE).vocab IN [i \in 1..Len(v) |-> <<v[i][1], 1>>]

\* vocab = learn_bpe.get_vocabulary(tmpin)
ReExtract(lines) == GetVocabulary(lines, FALSE).vocab

\* (mutation) a special word that the merges split is only warned about
RefoldWord_Unsplit(v, segments) ==
    IF Len(segments) # 1 THEN v ELSE AddEach(v, segments, 1)

\* for seg in segments: vocab[seg] += 1
RefoldWord(v, segments) == AddEach(v, segments, 1)

RECURSIVE RefoldLoop(_, _, _, _)
\* The special-vocabulary loop from the i-th word on: "ok" with the vocabulary
\* or "exit" at the 0-based index of a word that cannot be segmented.
RefoldLoop(b, special, i, v) ==
    IF i > Len(special) THEN [kind |-> "ok", vocab |-> v]
    ELSE IF ~CanSegment(b, <<special[i]>>) THEN [kind |-> "exit", index |-> i - 1]
    ELSE RefoldLoop(b, special, i + 1, RefoldWord(v, SegmentTokens(b, <<special[i]>>)))

\* (mutation) the terminal characters get the count of the non-terminal ones
PseudoCountTerminal_Same(v) == MaxValue(v) + 1

\* pseudo_count_terminal = max(vocab.values()) + 2
PseudoCountTerminal(v) == MaxValue(v) + 2

\* pseudo_count_internal = max(vocab.values()) + 1

PseudoCountInternal(v) == MaxValue(v) + 1

\* the key of a non-terminal character: separator + c (postpend) or c + separator
InternalKey(c, separator, is_postpend) ==
    IF is_postpend THEN separator \o c ELSE c \o separator

\* The character augmentation of a non-empty vocabulary; termOrder and
\* intOrder are the orders in which the two character sets are iterated.
CharAugment(v, termOrder, intOrder, separator, is_postpend) ==
    SetEach(SetEach(v, termOrder, PseudoCountTerminal(v)),
            [i \in 1..Len(intOrder) |-> InternalKey(intOrder[i], separator, is_postpend)],
            PseudoCountInternal(v))

\* (mutation) the key is (x[1], x[0]): counts ascending
SortKeyLess_Ascending(x, y) ==
    \/ x[2] < y[2]
    \/ x[2] = y[2] /\ LexLess(x[1], y[1])

\* (mutation) the key is -x[1] alone: equal counts keep the dict's order
SortKeyLess_CountOnly(x, y) == (0 - x[2]) < (0 - y[2])

\* key=lambda x: (-x[1], x[0]) : x sorts strictly before y
SortKeyLess(x, y) ==
    \/ (0 - x[2]) < (0 - y[2])
    \/ x[2] = y[2] /\ LexLess(x[1], y[1])

RECURSIVE InsertSorted(_, _)
\* x goes behind every item that does not sort after it (sorted() is stable)
InsertSorted(s, x) ==
    IF s = <<>> THEN <<x>>
    ELSE IF SortKeyLess(x, Head(s)) THEN <<x>> \o s
    ELSE <<Head(s)>> \o InsertSorted(Tail(s), x)

RECURSIVE Sorted(_)
Sorted(items) ==
    IF items = <<>> THEN <<>>
    ELSE InsertSorted(Sorted(SubSeq(items, 1, Len(items) - 1)), items[Len(items)])

\* the lines of a vocabulary file: "{0} {1}\n".format(key, freq) in sorted order
EmitLines(v) ==
    LET srt == Sorted(v) IN [i \in 1..Len(srt) |-> FormatPair(srt[i][1], srt[i][2])]

\* ------------------------------------------------------------------- state
VARIABLES
    args,           \* the parsed arguments (never assigned after construction)
    pc,             \* the position in learn_joint_bpe_and_vocab
    opened,         \* input corpora opened for reading
    was_read,       \* input corpora read at least once
    special_vocab,  \* the loaded special vocabulary (empty: none)
    full_vocab,     \* the combined Counter
    codebook,       \* the codes file: [opened, codes]
    learner_input,  \* the lines the merge learner consumed
    learn_calls,    \* number of learn_bpe invocations
    bpe,            \* the merge applier
    idx,            \* loop position: the corpus being read / re-derived
    vocab,          \* the per-corpus Counter
    line,           \* the local variable `line`: [bound, text]
    tmp_files,      \* scratch files that exist (named by their corpus)
    scratch,        \* what was written to the scratch file of the corpus
    out,            \* the vocabulary files: [opened, closed, lines]
    report          \* what the run printed before sys.exit(1)

vars == << args, pc, opened, was_read, special_vocab, full_vocab, codebook,
           learner_input, learn_calls, bpe, idx, vocab, line, tmp_files,
           scratch, out, report >>

NumLines(input) == SumSeq([i \in 1..Len(input) |-> Len(input[i])])

Inputs ==
    { f \in UNION { [1..n -> SeqsUpTo(CorpusLines, MaxLines)] : n \in {1, 2} } :
        NumLines(f) <= MaxLines }

SpecialArgs ==
    { [given |-> FALSE, lines |-> <<>>] } \cup
    { [given |-> TRUE, lines |-> l] : l \in SeqsUpTo(SpecialLines, MaxSpecial) \ { <<>> } }

Args ==
    [ input : Inputs,
      vocab : { <<>>, <<1>>, <<1, 2>> },
      special_vocab : SpecialArgs,
      separator : Separators,
      dict_input : BOOLEAN,
      postpend : BOOLEAN,
      character_vocab : BOOLEAN ]

NoReport == [kind |-> "none"]

Init ==
    /\ args \in Args
    /\ pc = "check"
    /\ opened = {}
    /\ was_read = {}
    /\ special_vocab = <<>>
    /\ full_vocab = <<>>
    /\ codebook = [opened |-> FALSE, codes |-> <<>>]
    /\ learner_input = <<>>
    /\ learn_calls = 0
    /\ bpe = [codes |-> <<>>, separator |-> <<>>, postpend |-> FALSE, unseg |-> {}]
    /\ idx = 1
    /\ vocab = <<>>
    /\ line = [bound |-> FALSE, text |-> <<>>]
    /\ tmp_files = {}
    /\ scratch = <<>>
    /\ out = [i \in 1..Len(args.vocab) |-> [opened |-> FALSE, closed |-> FALSE, lines |-> <<>>]]
    /\ report = NoReport

\* zip(args.input, args.vocab)
ZipLen == IF Len(args.input) < Len(args.vocab) THEN Len(args.input) ELSE Len(args.vocab)

\* the value of `line` after a loop over these lines
LastLine(lines) ==
    IF lines = <<>> THEN line ELSE [bound |-> TRUE, text |-> lines[Len(lines)]]

\* lines 95-97
CheckArgs ==
    /\ pc = "check"
    /\ IF args.vocab # <<>> /\ Len(args.input) # Len(args.vocab)
       THEN pc' = "failed" /\ report' = [kind |-> "mismatch"]
       ELSE pc' = "open" /\ UNCHANGED report
    /\ UNCHANGED << args, opened, was_read, special_vocab, full_vocab, codebook,
                    learner_input, learn_calls, bpe, idx, vocab, line, tmp_files,
                    scratch, out >>

\* lines 100-106
OpenFiles ==
    /\ pc = "open"
    /\ opened' = 1..Len(args.input)
    /\ out' = [i \in 1..Len(args.vocab) |-> [opened |-> TRUE, closed |-> FALSE, lines |-> <<>>]]
    /\ special_vocab' = IF args.special_vocab.given
                        THEN LoadSpecial(args.special_vocab.lines) ELSE <<>>
    /\ idx' = 1
    /\ pc' = "combine"
    /\ UNCHANGED << args, was_read, full_vocab, codebook, learner_input, learn_calls,
                    bpe, vocab, line, tmp_files, scratch, report >>

\* lines 110-112, one iteration
AddCorpus ==
    /\ pc = "combine"
    /\ LET got == GetVocabulary(args.input[idx], args.dict_input) IN
       /\ was_read' = was_read \cup {idx}
       /\ IF got.ok
          THEN /\ full_vocab' = CounterIAdd(full_vocab, got.vocab)
               /\ idx' = idx + 1
               /\ pc' = IF idx = Len(args.input) THEN "fold" ELSE "combine"
               /\ UNCHANGED report
          ELSE /\ report' = LineFailure(got.index, got.line)
               /\ pc' = "failed"
               /\ UNCHANGED << full_vocab, idx >>
    /\ UNCHANGED << args, opened, special_vocab, codebook, learner_input, learn_calls,
                    bpe, vocab, line, tmp_files, scratch, out >>

\* lines 113-115
FoldSpecialVocab ==
    /\ pc = "fold"
    /\ full_vocab' = IF special_vocab # <<>> THEN FoldSpecial(full_vocab, special_vocab)
                     ELSE full_vocab
    /\ pc' = "learn"
    /\ UNCHANGED << args, opened, was_read, special_vocab, codebook, learner_input,
                    learn_calls, bpe, idx, vocab, line, tmp_files, scratch, out, report >>

\* lines 117-121: the learner consumes the combined mapping and writes a codebook
Learn ==
    /\ pc = "learn"
    /\ learner_input' = YieldDictLines(full_vocab)
    /\ learn_calls' = learn_calls + 1
    /\ \E cb \in Codebooks : codebook' = [opened |-> TRUE, codes |-> cb]
    /\ pc' = "bpe"
    /\ UNCHANGED << args, opened, was_read, special_vocab, full_vocab, bpe, idx,
                    vocab, line, tmp_files, scratch, out, report >>

\* lines 123-124
BuildBPE ==
    /\ pc = "bpe"
    /\ \E u \in UnsegChoices :
          bpe' = [codes |-> codebook.codes, separator |-> args.separator,
                  postpend |-> args.postpend, unseg |-> u]
    /\ idx' = 1
    /\ pc' = IF ZipLen = 0 THEN "done" ELSE "corpus"
    /\ UNCHANGED << args, opened, was_read, special_vocab, full_vocab, codebook,
                    learner_input, learn_calls, vocab, line, tmp_files, scratch,
                    out, report >>

\* lines 128-138: the dict-input loop over the corpus
DictDerive ==
    /\ pc = "corpus"
    /\ args.dict_input
    /\ LET res == DictLoop(bpe, args.input[idx], 1, <<>>) IN
       /\ was_read' = was_read \cup {idx}
       /\ IF res.kind = "ok"
          THEN /\ vocab' = res.vocab
               /\ line' = LastLine(args.input[idx])
               /\ pc' = "special"
               /\ UNCHANGED report
          ELSE /\ line' = [bound |-> TRUE, text |-> res.line]
               /\ UNCHANGED vocab
               /\ IF res.kind = "exit"
                  THEN pc' = "failed" /\ report' = LineFailure(res.index, res.line)
                  ELSE pc' = "crashed" /\ UNCHANGED report
    /\ UNCHANGED << args, opened, special_vocab, full_vocab, codebook, learner_input,
                    learn_calls, bpe, idx, tmp_files, scratch, out >>

\* lines 140-150: the scratch file is created and the segmented lines written
RawSegment ==
    /\ pc = "corpus"
    /\ ~args.dict_input
    /\ tmp_files' = tmp_files \cup {idx}
    /\ was_read' = was_read \cup {idx}
    /\ IF CanProcess(bpe, args.input[idx])
       THEN /\ scratch' = [i \in 1..Len(args.input[idx]) |-> ScratchLine(bpe, args.input[idx][i])]
            /\ line' = LastLine(args.input[idx])
            /\ pc' = "extract"
       ELSE /\ scratch' = <<>>
            /\ line' = [bound |-> TRUE, text |-> args.input[idx][
                            CHOOSE i \in 1..Len(args.input[idx]) :
                               /\ ~CanSegment(bpe, SplitSp(Strip(args.input[idx][i])))
                               /\ \A j \in 1..(i - 1) :
                                     CanSegment(bpe, SplitSp(Strip(args.input[idx][j])))]]
            /\ pc' = "crashed"
    /\ UNCHANGED << args, opened, special_vocab, full_vocab, codebook, learner_input,
                    learn_calls, bpe, idx, vocab, out, report >>

\* lines 151-155: the vocabulary of the scratch file, which is then removed
RawExtract ==
    /\ pc = "extract"
    /\ vocab' = ReExtract(scratch)
    /\ tmp_files' = tmp_files \ {idx}
    /\ pc' = "special"
    /\ UNCHANGED << args, opened, was_read, special_vocab, full_vocab, codebook,
                    learner_input, learn_calls, bpe, idx, line, scratch, out, report >>

\* lines 158-170
RefoldSpecial ==
    /\ pc = "special"
    /\ LET res == IF special_vocab # <<>> THEN RefoldLoop(bpe, special_vocab, 1, vocab)
                  ELSE [kind |-> "ok", vocab |-> vocab] IN
       IF res.kind = "ok"
       THEN vocab' = res.vocab /\ pc' = "chars" /\ UNCHANGED report
       ELSE /\ UNCHANGED vocab
            /\ IF line.bound
               THEN pc' = "failed" /\ report' = SpecialFailure(res.index, line.text)
               ELSE pc' = "crashed" /\ UNCHANGED report
    /\ UNCHANGED << args, opened, was_read, special_vocab, full_vocab, codebook,
                    learner_input, learn_calls, bpe, idx, line, tmp_files, scratch, out >>

\* lines 173-182
CharVocab ==
    /\ pc = "chars"
    /\ IF ~args.character_vocab
       THEN pc' = "emit" /\ UNCHANGED vocab
       ELSE IF vocab = <<>>
       THEN pc' = "crashed" /\ UNCHANGED vocab
       ELSE LET chars == ExtractUniqChars(full_vocab, args.postpend) IN
            \E intOrder \in Orders(chars[1]), termOrder \in Orders(chars[2]) :
               /\ vocab' = CharAugment(vocab, termOrder, intOrder,
                                       args.separator, args.postpend)
               /\ pc' = "emit"
    /\ UNCHANGED << args, opened, was_read, special_vocab, full_vocab, codebook,
                    learner_input, learn_calls, bpe, idx, line, tmp_files, scratch,
                    out, report >>

\* lines 183-186
Emit ==
    /\ pc = "emit"
    /\ out' = [out EXCEPT ![idx] = [opened |-> TRUE, closed |-> TRUE, lines |-> EmitLines(vocab)]]
    /\ opened' = opened \ {idx}
    /\ idx' = idx + 1
    /\ pc' = IF idx = ZipLen THEN "done" ELSE "corpus"
    /\ UNCHANGED << args, was_read, special_vocab, full_vocab, codebook, learner_input,
                    learn_calls, bpe, vocab, line, tmp_files, scratch, report >>

Next ==
    \/ CheckArgs
    \/ OpenFiles
    \/ AddCorpus
    \/ FoldSpecialVocab
    \/ Learn
    \/ BuildBPE
    \/ DictDerive
    \/ RawSegment
    \/ RawExtract
    \/ RefoldSpecial
    \/ CharVocab
    \/ Emit

Spec == Init /\ [][Next]_vars

\* ============================================================== properties
\* A vocabulary file line read back: <<symbol, count>>.
ParseLine(l) == LET f == SplitSp(l) IN <<f[1], ParseInt(f[2])>>

\* The vocabulary file of corpus k read back, as a mapping in file order.
Emitted(k) == [i \in 1..Len(out[k].lines) |-> ParseLine(out[k].lines[i])]

\* The corpora whose vocabulary has been emitted.
Closed == { k \in DOMAIN out : out[k].closed }

\* The vocabulary of corpus idx - 1 has just been written; vocab still holds
\* the mapping it was written from.
JustEmitted == pc \in {"corpus", "done"} /\ idx > 1

\* The vocabulary files to examine in this state.  Emit writes a file once,
\* closes it and moves on, and no other step assigns it: every emitted file is
\* examined in the state that follows its emission.
Fresh == IF JustEmitted THEN {idx - 1} ELSE {}

Reverse(q) == [i \in 1..Len(q) |-> q[Len(q) + 1 - i]]

Min(S) == CHOOSE m \in S : \A x \in S : m <= x

\* the two character sets of the combined vocabulary, as vocabulary keys
TermKeys == ExtractUniqChars(full_vocab, args.postpend)[2]

IntKeys ==
    { InternalKey(c, args.separator, args.postpend) :
        c \in ExtractUniqChars(full_vocab, args.postpend)[1] }

\* ------------------------------------------------------------------- C1
\* C1: the lines written to a vocabulary file hold every key of the mapping
\* exactly once as 'symbol count', and any two consecutive lines (s1,c1),
\* (s2,c2) have c1 > c2, or c1 = c2 and s1 < s2 lexicographically.
C1_SortContract ==
    /\ JustEmitted =>
          /\ Len(out[idx - 1].lines) = Len(vocab)
          /\ \A i \in 1..Len(vocab) :
                Cardinality({ j \in 1..Len(out[idx - 1].lines) :
                    out[idx - 1].lines[j] = FormatPair(vocab[i][1], vocab[i][2]) }) = 1
    /\ \A k \in Fresh :
          LET e == Emitted(k) IN
          \A i \in 1..(Len(e) - 1) :
              \/ e[i][2] > e[i + 1][2]
              \/ e[i][2] = e[i + 1][2] /\ LexLess(e[i][1], e[i + 1][1])

\* a file of at least three lines with both a tie and a strict descent
C1_Witness ==
    /\ JustEmitted
    /\ LET e == Emitted(idx - 1) IN
       /\ Len(e) >= 3
       /\ \E i \in 1..(Len(e) - 1) : e[i][2] = e[i + 1][2]
       /\ \E i \in 1..(Len(e) - 1) : e[i][2] > e[i + 1][2]

\* ------------------------------------------------------------------- C5
\* The per-corpus vocabulary before the character augmentation, recomputed
\* from the corpus, the merge applier and the special vocabulary alone.
PreChar(k) ==
    LET base == IF args.dict_input
                THEN DictLoop(bpe, args.input[k], 1, <<>>).vocab
                ELSE ReExtract([i \in 1..Len(args.input[k]) |->
                                   ScratchLine(bpe, args.input[k][i])])
    IN  IF special_vocab # <<>> THEN RefoldLoop(bpe, special_vocab, 1, base).vocab
        ELSE base

RECURSIVE Ascending(_)
\* the elements of a set of strings in ascending order
Ascending(S) ==
    IF S = {} THEN <<>>
    ELSE LET m == CHOOSE x \in S : \A y \in S \ {x} : LexLess(x, y)
         IN  <<m>> \o Ascending(S \ {m})

\* The mapping a reference run emits for corpus k: it iterates the character
\* sets in ascending order.
Reference(k) ==
    LET chars == ExtractUniqChars(full_vocab, args.postpend) IN
    IF args.character_vocab
    THEN CharAugment(PreChar(k), Ascending(chars[2]), Ascending(chars[1]),
                     args.separator, args.postpend)
    ELSE PreChar(k)

\* C5: whatever order a run iterates the character sets in, the lines it
\* emits for a corpus are those of the reference run on the same corpus,
\* codebook, special vocabulary and flags, and they are the same again when
\* the per-corpus counter holds its items in the opposite insertion order.
C5_Deterministic ==
    JustEmitted =>
        /\ out[idx - 1].lines = EmitLines(Reference(idx - 1))
        /\ out[idx - 1].lines = EmitLines(Reverse(Reference(idx - 1)))

\* character sets that can be iterated in more than one order, and a tie
C5_Witness ==
    /\ JustEmitted
    /\ args.character_vocab
    /\ Cardinality(TermKeys) >= 2
    /\ Cardinality(IntKeys) >= 2
    /\ LET e == Emitted(idx - 1) IN \E i \in 1..(Len(e) - 1) : e[i][2] = e[i + 1][2]

\* ------------------------------------------------------------------- C9
\* the fields of the i-th line of corpus k
Fields(k, i) == SplitSp(Strip(args.input[k][i]))

\* number of occurrences of s in a segmentation
Occ(segs, s) == Cardinality({ j \in 1..Len(segs) : segs[j] = s })

\* sum over the (word, count) lines of corpus k of count per occurrence of s
DictRef(k, s) ==
    SumSeq([i \in 1..Len(args.input[k]) |->
               ParseInt(Fields(k, i)[2]) * Occ(SegmentTokens(bpe, <<Fields(k, i)[1]>>), s)])

\* the subwords that occur in the segmentations of the words of corpus k
DictSegs(k) ==
    UNION { { SegmentTokens(bpe, <<Fields(k, i)[1]>>)[j] :
                j \in 1..Len(SegmentTokens(bpe, <<Fields(k, i)[1]>>)) } :
            i \in 1..Len(args.input[k]) }

\* C9: dict input, no special vocabulary, no character augmentation: the
\* emitted count of a subword is the sum, over the lines of that corpus only,
\* of the line's count for each occurrence of the subword in the word's
\* segmentation, and a subword without occurrence is absent.
C9_DictCounts ==
    (args.dict_input /\ special_vocab = <<>> /\ ~args.character_vocab) =>
        \A k \in Fresh :
            /\ Keys(Emitted(k)) = DictSegs(k)
            /\ Len(Emitted(k)) = Cardinality(DictSegs(k))
            /\ \A s \in DictSegs(k) : Get(Emitted(k), s) = DictRef(k, s)

\* two corpora emitted, a subword that occurs twice in one word, a count of 2
C9_Witness ==
    /\ args.dict_input /\ special_vocab = <<>> /\ ~args.character_vocab
    /\ pc = "done"
    /\ Closed = {1, 2}
    /\ args.input[1] # <<>> /\ args.input[2] # <<>>
    /\ \E s \in DictSegs(1) :
          /\ Occ(SegmentTokens(bpe, <<Fields(1, 1)[1]>>), s) = 2
          /\ Get(Emitted(1), s) = 4

\* ------------------------------------------------------------------- C3
\* the emitted counts of the subwords of a word, summed
SegmentSum(k, w) ==
    LET segs == SegmentTokens(bpe, <<w>>) IN
    SumSeq([j \in 1..Len(segs) |-> Get(Emitted(k), segs[j])])

\* C3: for every special word and every emitted vocabulary, the emitted
\* counts of the subwords of the word's segmentation sum to at least 1.
C3_SpecialPresent ==
    \A k \in Fresh : \A i \in 1..Len(special_vocab) :
        SegmentSum(k, special_vocab[i]) >= 1

\* an empty corpus, a special word the merges split, and the augmentation
\* overwriting one of its pieces
C3_Witness ==
    /\ special_vocab # <<>>
    /\ args.character_vocab
    /\ \E k \in Closed :
          /\ args.input[k] = <<>>
          /\ Len(SegmentTokens(bpe, <<special_vocab[1]>>)) = 2
          /\ SegmentTokens(bpe, <<special_vocab[1]>>)[2] \in TermKeys

\* ------------------------------------------------------------------- C2
\* the emitted symbols that are no character symbol
OtherKeys(k) == Keys(Emitted(k)) \ (TermKeys \cup IntKeys)

\* C2 as stated: with the character augmentation, in every emitted
\* vocabulary, count(t) > count(n) > count of every other symbol, for every
\* terminal character t and every non-terminal character symbol n, for every
\* separator (the empty one included).
C2_CharRankAnySeparator ==
    args.character_vocab =>
        \A k \in Fresh :
            LET e == Emitted(k) IN
            /\ \A t \in TermKeys, n \in IntKeys : Get(e, t) > Get(e, n)
            /\ \A c \in TermKeys \cup IntKeys, s \in OtherKeys(k) : Get(e, c) > Get(e, s)

\* C2 (amended): with the character augmentation, in every emitted
\* vocabulary, every terminal character whose key is not also the key of a
\* non-terminal character counts more than every non-terminal character
\* symbol, every character symbol counts more than every other symbol, and a
\* key that is both (the separator is empty) carries the non-terminal count.
C2_CharRank ==
    args.character_vocab =>
        \A k \in Fresh :
            LET e == Emitted(k) IN
            /\ \A t \in TermKeys \ IntKeys, n \in IntKeys : Get(e, t) > Get(e, n)
            /\ \A c \in TermKeys \cup IntKeys, s \in OtherKeys(k) : Get(e, c) > Get(e, s)
            /\ \A c \in TermKeys \cap IntKeys, n \in IntKeys : Get(e, c) = Get(e, n)
            /\ (TermKeys \cap IntKeys # {}) => args.separator = <<>>

\* an emitted vocabulary with a terminal-only key, a non-terminal key and
\* another symbol, once with the empty separator and a key that is both
C2_Witness ==
    /\ args.character_vocab
    /\ args.separator = <<>>
    /\ \E k \in Closed :
          /\ TermKeys \cap IntKeys # {}
          /\ TermKeys \ IntKeys # {}
          /\ OtherKeys(k) # {}

\* ------------------------------------------------------------------- C4
\* the whitespace-delimited tokens of the lines of a file
TokenCount(lines) ==
    SumSeq([i \in 1..Len(lines) |->
               Cardinality({ j \in 1..Len(SplitSp(lines[i])) : SplitSp(lines[i])[j] # <<>> })])

\* the number of subwords the special words segment into, duplicates included
SpecialPieces ==
    SumSeq([i \in 1..Len(special_vocab) |-> Len(SegmentTokens(bpe, <<special_vocab[i]>>))])

\* C4 as stated: in raw-text mode, with or without a special vocabulary, the
\* counts of the per-corpus vocabulary just before the character augmentation
\* sum to the number of tokens of the scratch file.
C4_SumIsTokenCount ==
    (pc = "chars" /\ ~args.dict_input) => SumSeq([i \in 1..Len(vocab) |-> vocab[i][2]]) = TokenCount(scratch)

\* C4 (amended): in raw-text mode the counts of the per-corpus vocabulary just
\* before the character augmentation sum to the number of tokens of the
\* scratch file plus the number of subwords the special words segment into
\* (none without a special vocabulary).
C4_SumIsTokensPlusSpecial ==
    (pc = "chars" /\ ~args.dict_input) =>
        SumSeq([i \in 1..Len(vocab) |-> vocab[i][2]]) = TokenCount(scratch) + SpecialPieces

\* a corpus with a token that occurs twice, and a special word that is split
C4_Witness ==
    /\ pc = "chars" /\ ~args.dict_input
    /\ TokenCount(scratch) >= 4
    /\ \E i \in 1..Len(vocab) : vocab[i][2] >= 3
    /\ SpecialPieces >= 2

\* ------------------------------------------------------------------- C8
\* the count of the word w in corpus k, read from the corpus
WordCount(k, w) ==
    SumSeq([i \in 1..Len(args.input[k]) |->
               IF args.dict_input
               THEN (IF Fields(k, i)[1] = w THEN ParseInt(Fields(k, i)[2]) ELSE 0)
               ELSE Occ(Fields(k, i), w)])

CorpusWords ==
    UNION { UNION { IF args.dict_input THEN { Fields(k, i)[1] }
                    ELSE { Fields(k, i)[j] : j \in 1..Len(Fields(k, i)) } :
                    i \in 1..Len(args.input[k]) } :
            k \in 1..Len(args.input) }

SpecialWords == { special_vocab[i] : i \in 1..Len(special_vocab) }

TotalCount(w) == SumSeq([k \in 1..Len(args.input) |-> WordCount(k, w)])

\* the mapping the merge learner consumed
Handed == [i \in 1..Len(learner_input) |-> ParseLine(learner_input[i])]

\* the learner has just returned (learner_input is assigned nowhere else)
JustLearned == pc = "bpe"

\* the learner runs once, on the combined mapping as it stands from then on,
\* whose keys are corpus words and special words, each once
HandedOnce ==
    /\ learn_calls <= 1
    /\ (pc \notin {"check", "open", "combine", "fold", "learn", "failed"}) => learn_calls = 1
    /\ learn_calls = 1 => learner_input = YieldDictLines(full_vocab)
    /\ JustLearned =>
          /\ Keys(Handed) \subseteq CorpusWords \cup SpecialWords
          /\ Cardinality(Keys(Handed)) = Len(Handed)

\* C8 as stated: combined[w] = the sum of the corpora's counts of w, plus 1 if
\* w is in the special vocabulary; built in full before the one learner call.
C8_CombinedPlusOne ==
    /\ HandedOnce
    /\ JustLearned =>
          \A w \in CorpusWords \cup SpecialWords :
              Get(Handed, w) = TotalCount(w) + (IF w \in SpecialWords THEN 1 ELSE 0)

\* C8 (amended): combined[w] = the sum of the corpora's counts of w, plus the
\* number of lines of the special vocabulary that hold w; built in full before
\* the one learner call, with no other key.
C8_CombinedPlusOccurrences ==
    /\ HandedOnce
    /\ JustLearned =>
          \A w \in CorpusWords \cup SpecialWords :
              Get(Handed, w) = TotalCount(w) + Occ(special_vocab, w)

\* a word of both corpora that is also a special word, and a special word
\* listed twice
C8_Witness ==
    /\ JustLearned
    /\ Len(args.input) = 2
    /\ \E w \in SpecialWords :
          /\ WordCount(1, w) > 0 /\ WordCount(2, w) > 0
          /\ Occ(special_vocab, w) = 2
          /\ Get(Handed, w) = 4

\* ------------------------------------------------------------------- C7
\* a dictionary line that is no word/integer pair
ParseBad(ln) ==
    LET f == SplitSp(Strip(ln)) IN Len(f) # 2 \/ ~IsInt(f[2])

\* a dictionary line whose word the merge applier cannot segment
SegBad(ln) ==
    LET f == SplitSp(Strip(ln)) IN Len(f) = 2 /\ f[1] \in bpe.unseg

\* the offending lines of corpus k: those that do not parse and those the
\* merge applier (once it is built) cannot segment
BadLines(k) ==
    { i \in 1..Len(args.input[k]) :
        ParseBad(args.input[k][i]) \/ SegBad(args.input[k][i]) }

\* the run stopped at a line of corpus idx: its report gives the 0-based index
\* and the text of the first offending line, and neither this corpus nor a
\* later one has a vocabulary
StoppedAtLine ==
    /\ BadLines(idx) # {}
    /\ report.index = Min(BadLines(idx)) - 1
    /\ report.line = args.input[idx][Min(BadLines(idx))]
    /\ \A k \in DOMAIN out : k >= idx => ~out[k].closed /\ out[k].lines = <<>>
    /\ learn_calls = 0 => Closed = {}

\* no vocabulary is emitted for a corpus with an offending line, or after one
NoVocabularyPastBadLine ==
    /\ \A k \in Closed :
          /\ \A j \in 1..Len(args.input) : \A i \in 1..Len(args.input[j]) : ~ParseBad(args.input[j][i])
          /\ \A j \in 1..k : BadLines(j) = {}
    /\ pc = "done" =>
          /\ \A j \in 1..Len(args.input) : \A i \in 1..Len(args.input[j]) : ~ParseBad(args.input[j][i])
          /\ \A j \in 1..ZipLen : BadLines(j) = {}

\* C7 as stated: in dict-input mode an offending line aborts the run with a
\* report that identifies the corpus and the 0-based index of the line, and no
\* vocabulary is emitted for that corpus or a later one.
C7_ReportNamesCorpus ==
    args.dict_input =>
        /\ (pc = "failed" /\ report.kind = "line") =>
              /\ StoppedAtLine
              /\ "corpus" \in DOMAIN report
              /\ report["corpus"] = idx
        /\ NoVocabularyPastBadLine

\* C7 (amended): in dict-input mode an offending line aborts the run with a
\* report that gives the 0-based index and the text of the line (the corpus is
\* not named), and no vocabulary is emitted for that corpus or a later one.
C7_ReportGivesIndex ==
    args.dict_input =>
        /\ (pc = "failed" /\ report.kind = "line") => StoppedAtLine
        /\ NoVocabularyPastBadLine

\* the second corpus stops at a word that cannot be segmented, after the
\* vocabulary of the first corpus was emitted
C7_Witness ==
    /\ args.dict_input
    /\ pc = "failed" /\ report.kind = "line"
    /\ idx = 2 /\ Closed = {1}
    /\ SegBad(args.input[2][1])

\* ------------------------------------------------------------------- C6
\* nothing was touched: no input opened or read, no codebook or vocabulary
\* file opened, the learner not invoked
NothingTouched ==
    /\ opened = {} /\ was_read = {}
    /\ ~codebook.opened
    /\ learn_calls = 0
    /\ \A k \in DOMAIN out : ~out[k].opened /\ out[k].lines = <<>>

\* C6: when the number of corpora differs from the number of vocabulary paths
\* (zero paths included) the run aborts before any processing: nothing is
\* touched, and the run never ends with exit status 0.
C6_MismatchAborts ==
    Len(args.input) # Len(args.vocab) =>
        /\ NothingTouched
        /\ pc \in {"done", "failed", "crashed"} => pc = "failed" /\ report.kind = "mismatch"

\* ------------------------------------------------------------------ C10
\* C10: in every terminal state of the run, normal or not, no scratch file
\* created by the run still exists.
C10_NoScratchLeft ==
    pc \in {"done", "failed", "crashed"} => tmp_files = {}

====
